---- MODULE Spec2Model ----
(***************************************************************************)
(* A model of the NCSL sessions program: the query service of app.py       *)
(* (SessionManager and its bootstrap) and the extractors that produce the  *)
(* dataset files (scraper.py, fetch_all_sessions.py,                       *)
(* scrape_all_sessions.py).                                                *)
(*                                                                         *)
(* A Python str is a sequence of one-character strings, so that substring  *)
(* search, lower-casing and concatenation are computed, not assumed.       *)
(***************************************************************************)
EXTENDS Integers, Sequences, FiniteSets, TLC

(***************************************************************************)
(* Bounds of the model.                                                    *)
(***************************************************************************)
MaxSessions == 2
MaxRequests == 1
MaxRuns == 2

(***************************************************************************)
(* Text.  A Python str is a sequence of atoms: characters, and a few       *)
(* chunks of characters that the model never splits (a date, a time of     *)
(* day, a marker such as "Location:").                                     *)
(***************************************************************************)
UpperLetters ==
    <<"A", "B", "C", "D", "E", "F", "G", "H", "I", "J", "K", "L", "M",
      "N", "O", "P", "Q", "R", "S", "T", "U", "V", "W", "X", "Y", "Z">>

LowerLetters ==
    <<"a", "b", "c", "d", "e", "f", "g", "h", "i", "j", "k", "l", "m",
      "n", "o", "p", "q", "r", "s", "t", "u", "v", "w", "x", "y", "z">>

\* the markers that occur as one atom, and their lower-case forms
Markers == <<"Location:", "Track:", "BCEC", "Westin", "Omni">>

LowerMarkers == <<"location:", "track:", "bcec", "westin", "omni">>

\* str.lower(), one atom
LowerChar(c) ==
    IF \E i \in 1..Len(UpperLetters) : UpperLetters[i] = c
    THEN LowerLetters[CHOOSE i \in 1..Len(UpperLetters) : UpperLetters[i] = c]
    ELSE IF \E i \in 1..Len(Markers) : Markers[i] = c
         THEN LowerMarkers[CHOOSE i \in 1..Len(Markers) : Markers[i] = c]
         ELSE c

\* str.isupper() of one character
IsUpperChar(c) == \E i \in 1..Len(UpperLetters) : UpperLetters[i] = c

\* str.lower()
LowerText(t) == [i \in 1..Len(t) |-> LowerChar(t[i])]

\* Python's `x in y` for two str
IsSubstring(x, y) ==
    \E k \in 0..(Len(y) - Len(x)) : SubSeq(y, k + 1, k + Len(x)) = x

(***************************************************************************)
(* Python values of a `speakers` entry: a str (fetch_all_sessions.py,      *)
(* scrape_all_sessions.py) or a dict {name, title, organization}           *)
(* (scraper.py).  Both are records of one shape, told apart by `tag`.      *)
(***************************************************************************)
Str(t) == [tag |-> "str", str |-> t, name |-> <<>>, title |-> <<>>, organization |-> <<>>]

Dict(n, t, o) == [tag |-> "dict", str |-> <<>>, name |-> n, title |-> t, organization |-> o]

\* Python's == on two speaker entries: a str never equals a dict
PyEq(a, b) ==
    /\ a.tag = b.tag
    /\ IF a.tag = "str"
       THEN a.str = b.str
       ELSE a.name = b.name /\ a.title = b.title /\ a.organization = b.organization

\* Python's `x in list`
PyIn(x, list) == \E i \in 1..Len(list) : PyEq(list[i], x)

\* JSON null / Python None, kept a sequence so that it compares with a text
None == <<"<None>">>

(***************************************************************************)
(* A session is a dict whose keys vary per extractor: `keys` holds the     *)
(* keys present, a key that is absent has the empty value in its field.    *)
(***************************************************************************)
NoSession ==
    [keys |-> {}, title |-> <<>>, date |-> <<>>, time |-> <<>>, location |-> <<>>,
     description |-> <<>>, speakers |-> <<>>, track |-> <<>>, tracks |-> <<>>,
     type |-> "", session_type |-> ""]

\* dict.get(key, default)
Get(s, key, default) == IF key \in s.keys THEN s[key] ELSE default

(***************************************************************************)
(* The datasets the model reads: sessions in the forms the extractors and  *)
(* the data model allow.                                                   *)
(***************************************************************************)
\* fetch_all_sessions.py form: str speakers, single track, `type`
SessAI ==
    [NoSession EXCEPT !.keys = {"title", "time", "speakers", "track", "type"},
                      !.title = <<"A", "b">>, !.time = <<"9">>,
                      !.speakers = <<Str(<<"B", "a">>)>>,
                      !.track = <<"a">>, !.type = "Session"]

\* a session with a description and a `tracks` sequence, no title, no speakers
SessTracks ==
    [NoSession EXCEPT !.keys = {"time", "description", "tracks"},
                      !.time = <<"9">>, !.description = <<"a", "B">>,
                      !.tracks = <<<<"a">>, <<"b">>>>]

\* scraper.py form: dict speakers, `track` always present, `session_type`
SessFinal ==
    [NoSession EXCEPT !.keys = {"date", "time", "title", "location", "speakers",
                                "description", "track", "session_type"},
                      !.title = <<"a">>, !.date = <<"D">>, !.time = None,
                      !.speakers = <<Dict(<<"B", "a">>, <<"b">>, <<>>)>>,
                      !.session_type = "Session"]

\* a session that carries both `track` and `tracks`
SessBoth ==
    [NoSession EXCEPT !.keys = {"title", "track", "tracks", "session_type"},
                      !.title = <<"B">>, !.track = <<"b">>,
                      !.tracks = <<<<"a">>>>, !.session_type = "Workshop"]

\* a str speaker that matches before a dict speaker, and an empty str speaker
SessMixed ==
    [NoSession EXCEPT !.keys = {"title", "speakers"},
                      !.title = <<"b", "b">>,
                      !.speakers = <<Str(<<>>), Str(<<"a", "b">>),
                                     Dict(<<"a">>, <<>>, <<>>)>>]

SessionPool == {SessAI, SessTracks, SessFinal, SessBoth, SessMixed}

RECURSIVE SeqsUpTo(_, _)
\* the sequences over S of length at most n
SeqsUpTo(S, n) ==
    IF n = 0 THEN {<<>>}
    ELSE LET shorter == SeqsUpTo(S, n - 1)
         IN  shorter \cup {Append(q, x) : q \in shorter, x \in S}

\* a file: absent, present but not a JSON object, or a dataset document
AbsentFile == [kind |-> "absent", sessions |-> <<>>, speakers |-> <<>>]

InvalidFile == [kind |-> "invalid", sessions |-> <<>>, speakers |-> <<>>]

DatasetFile(ss, sp) == [kind |-> "dataset", sessions |-> ss, speakers |-> sp]

\* a run that has not returned, and a run that returned None
NotReturned == [kind |-> "pending", sessions |-> <<>>, speakers |-> <<>>]

ReturnedNone == [kind |-> "none", sessions |-> <<>>, speakers |-> <<>>]

\* the files the serving process may find: the top-level `speakers` array is
\* written next to the sessions and need not be empty when they are
Files ==
    {AbsentFile, InvalidFile}
        \cup {DatasetFile(ss, <<>>) : ss \in SeqsUpTo(SessionPool, MaxSessions)}
        \cup {DatasetFile(<<>>, <<Str(<<"B", "a">>)>>),
              DatasetFile(<<SessAI>>, <<Str(<<"B", "a">>)>>)}

\* the request arguments tried
Queries == {<<>>, <<"a">>, <<"A", "b">>, <<"B", "A">>}

TrackArgs == {<<>>, <<"a">>, <<"b">>, <<"A">>}

SpeakerArgs == {<<>>, <<"B", "a">>, <<"b", "a">>}

(***************************************************************************)
(* FinalNCSLScraper (scraper.py)                                           *)
(***************************************************************************)
\* the data-value attributes that strptime('%m/%d/%Y') accepts, as strftime('%Y-%m-%d') gives them back
DateValues == <<<<"08/02/2025">>, <<"08/03/2025">>>>

IsoDates == <<<<"2025-08-02">>, <<"2025-08-03">>>>

\* the date of a cell: the ISO form of its data-value, or the data-value as it is
ParseDate(date_value) ==
    IF \E i \in 1..Len(DateValues) : DateValues[i] = date_value
    THEN IsoDates[CHOOSE i \in 1..Len(DateValues) : DateValues[i] = date_value]
    ELSE date_value

\* determine_session_type's type_map, in its order
type_map ==
    <<<<<<<<"g", "e", "n", "e", "r", "a", "l", " ", "s", "e", "s", "s", "i", "o", "n">>>>, "General Session">>,
      <<<<<<"o", "p", "e", "n", "i", "n", "g", " ", "s", "e", "s", "s", "i", "o", "n">>>>, "General Session">>,
      <<<<<<"c", "l", "o", "s", "i", "n", "g", " ", "s", "e", "s", "s", "i", "o", "n">>>>, "General Session">>,
      <<<<<<"b", "r", "e", "a", "k", "f", "a", "s", "t">>>>, "Breakfast Session">>,
      <<<<<<"l", "u", "n", "c", "h">>>>, "Lunch Session">>,
      <<<<<<"r", "e", "c", "e", "p", "t", "i", "o", "n">>>>, "Reception">>,
      <<<<<<"c", "o", "m", "m", "i", "t", "t", "e", "e", " ", "m", "e", "e", "t", "i", "n", "g">>>>, "Committee Meeting">>,
      <<<<<<"b", "u", "s", "i", "n", "e", "s", "s", " ", "m", "e", "e", "t", "i", "n", "g">>>>, "Business Meeting">>,
      <<<<<<"t", "a", "s", "k", " ", "f", "o", "r", "c", "e">>>>, "Task Force Meeting">>,
      <<<<<<"c", "a", "u", "c", "u", "s">>>>, "Caucus Meeting">>,
      <<<<<<"r", "e", "g", "i", "s", "t", "r", "a", "t", "i", "o", "n">>>>, "Registration">>,
      <<<<<<"e", "x", "h", "i", "b", "i", "t", " ", "h", "a", "l", "l">>>>, "Exhibit Hall Event">>,
      <<<<<<"l", "e", "a", "r", "n", "i", "n", "g", " ", "h", "u", "b">>>>, "Learning Hub Session">>,
      <<<<<<"w", "o", "r", "k", "s", "h", "o", "p">>>>, "Workshop">>,
      <<<<<<"r", "o", "u", "n", "d", "t", "a", "b", "l", "e">>>>, "Roundtable">>,
      <<<<<<"p", "r", "o", "f", "e", "s", "s", "i", "o", "n", "a", "l", " ", "d", "e", "v", "e", "l", "o", "p", "m", "e", "n", "t">>>>, "Professional Development">>,
      <<<<<<"t", "r", "a", "i", "n", "i", "n", "g">>>>, "Training">>,
      <<<<<<"f", "o", "r", "u", "m">>>>, "Forum">>,
      <<<<<<"p", "a", "n", "e", "l">>>>, "Panel Discussion">>,
      <<<<<<"p", "l", "e", "n", "a", "r", "y">>>>, "Plenary Session">>>>

RECURSIVE FirstMatch(_, _, _)
\* a chain of `if key in title_lower` tests: the first entry whose keys are all
\* found in the title decides, "Session" when none does
FirstMatch(table, k, title_lower) ==
    IF k > Len(table) THEN "Session"
    ELSE IF \A n \in 1..Len(table[k][1]) : IsSubstring(table[k][1][n], title_lower)
         THEN table[k][2]
         ELSE FirstMatch(table, k + 1, title_lower)

\* determine_session_type without its title.lower()
determine_session_type_CaseSensitive(title) == FirstMatch(type_map, 1, title)

\* FinalNCSLScraper.determine_session_type
determine_session_type(title) == FirstMatch(type_map, 1, LowerText(title))

\* an f-string field: str(None) is "None"
FormatField(v) == IF v = None THEN <<"N", "o", "n", "e">> ELSE v

\* FinalNCSLScraper.create_session_hash: the md5 digest of the four fields
\* concatenated.  md5 is taken to be collision-free: a digest is represented by
\* the string it digests.
create_session_hash(session_data) ==
    FormatField(Get(session_data, "title", <<>>))
        \o FormatField(Get(session_data, "date", <<>>))
        \o FormatField(Get(session_data, "time", <<>>))
        \o FormatField(Get(session_data, "location", <<>>))

\* what makes two sessions the same for the specification
SessionKey(s) == <<s.title, s.date, s.time, s.location>>

\* a date cell as BeautifulSoup hands it over: the number of cells of its row, its
\* data-value, whether it has text, the time and location that parse_time_location
\* reads from that text, the texts of the cells before and after it, the speakers
\* and track that extract_speakers_from_structured_text reads from the row, and
\* whether reading the markup raises
NoCell ==
    [row_cells |-> 3, date_value |-> <<"08/02/2025">>, has_text |-> TRUE,
     time |-> None, location |-> <<>>, title |-> <<>>, description |-> <<>>,
     speakers |-> <<>>, track |-> <<>>, raises |-> FALSE]

\* FinalNCSLScraper.extract_session_from_cell: <<session>>, or <<>> for None
extract_session_from_cell(date_cell) ==
    IF date_cell.raises THEN <<>>
    ELSE IF date_cell.row_cells < 3 THEN <<>>
    ELSE IF date_cell.date_value = <<>> THEN <<>>
    ELSE IF ~date_cell.has_text THEN <<>>
    ELSE IF date_cell.title = <<>> THEN <<>>
    ELSE <<[NoSession EXCEPT
            !.keys = {"date", "time", "title", "location", "speakers",
                      "description", "track", "session_type"},
            !.date = ParseDate(date_cell.date_value),
            !.time = date_cell.time,
            !.title = date_cell.title,
            !.location = date_cell.location,
            !.speakers = date_cell.speakers,
            !.description = date_cell.description,
            !.track = date_cell.track,
            !.session_type = determine_session_type(date_cell.title)]>>

RECURSIVE PageLoop(_, _, _)
\* get_page_sessions' loop over the date cells: the seen hashes and the new sessions
PageLoop(date_cells, seen, new) ==
    IF date_cells = <<>> THEN [seen |-> seen, sessions |-> new]
    ELSE LET extracted == extract_session_from_cell(Head(date_cells))
         IN  IF extracted = <<>>
             THEN PageLoop(Tail(date_cells), seen, new)
             ELSE LET session == extracted[1]
                      session_hash == create_session_hash(session)
                  IN  IF session_hash \notin seen
                      THEN PageLoop(Tail(date_cells), seen \cup {session_hash},
                                    Append(new, session))
                      ELSE PageLoop(Tail(date_cells), seen, new)

\* the answer of the web server to one page request
FetchError == [ok |-> FALSE, date_cells |-> <<>>]

PageOf(date_cells) == [ok |-> TRUE, date_cells |-> date_cells]

\* FinalNCSLScraper.get_page_sessions: any exception gives an empty list
get_page_sessions(fetched, seen) ==
    IF ~fetched.ok THEN [seen |-> seen, sessions |-> <<>>]
    ELSE PageLoop(fetched.date_cells, seen, <<>>)

\* the code points of the characters, in their order
CodePoints == <<" ", ",", "/", ":">> \o UpperLetters \o LowerLetters

Rank(c) ==
    IF \E i \in 1..Len(CodePoints) : CodePoints[i] = c
    THEN CHOOSE i \in 1..Len(CodePoints) : CodePoints[i] = c
    ELSE 0

RECURSIVE TextLess(_, _)
\* Python's < on two str
TextLess(a, b) ==
    IF b = <<>> THEN FALSE
    ELSE IF a = <<>> THEN TRUE
    ELSE IF Rank(Head(a)) # Rank(Head(b)) THEN Rank(Head(a)) < Rank(Head(b))
    ELSE TextLess(Tail(a), Tail(b))

RECURSIVE FirstSpeakers(_, _)
\* scrape_all_sessions' all_speakers: per name, the first speaker dict met
FirstSpeakers(entries, acc) ==
    IF entries = <<>> THEN acc
    ELSE LET e == Head(entries)
         IN  IF e.name # <<>> /\ \A i \in 1..Len(acc) : acc[i].name # e.name
             THEN FirstSpeakers(Tail(entries), Append(acc, e))
             ELSE FirstSpeakers(Tail(entries), acc)

RECURSIVE Flatten(_)
Flatten(lists) == IF lists = <<>> THEN <<>> ELSE Head(lists) \o Flatten(Tail(lists))

RECURSIVE SortedByName(_)
\* sorted(..., key=lambda x: x['name'])
SortedByName(entries) ==
    IF entries = <<>> THEN <<>>
    ELSE LET least == CHOOSE i \in 1..Len(entries) :
                          \A j \in 1..Len(entries) :
                              j # i => ~TextLess(entries[j].name, entries[i].name)
                                       /\ (entries[j].name = entries[i].name => i < j)
         IN  <<entries[least]>>
                 \o SortedByName([k \in 1..(Len(entries) - 1) |->
                                     IF k < least THEN entries[k] ELSE entries[k + 1]])

\* scrape_all_sessions' output: the sessions and the speakers list of the
\* document (its event, metadata and tracks blocks are not read by the service)
FinalOutput(ss) ==
    DatasetFile(ss, SortedByName(FirstSpeakers(
                        Flatten([i \in 1..Len(ss) |-> ss[i].speakers]), <<>>)))

\* the date cells the model puts on the pages
\* "A" on Aug. 2, with the time text "1:00 pm/xy1:00 pm"
CellA ==
    [NoCell EXCEPT !.title = <<"A">>, !.time = <<"1:00 pm/xy", "1:00 pm">>,
                   !.description = <<"x">>,
                   !.speakers = <<Dict(<<"B", "a">>, <<"b">>, <<>>)>>]

\* the same title, date, time and location as CellA, with another description
CellA2 ==
    [NoCell EXCEPT !.title = <<"A">>, !.time = <<"1:00 pm/xy", "1:00 pm">>,
                   !.description = <<"y">>]

\* "A2025-08-02" with the data-value "1:00 pm/xy" (ten characters with a "/",
\* no date) and the time "1:00 pm": other fields than CellA, the same concatenation
CellB ==
    [NoCell EXCEPT !.title = <<"A", "2025-08-02">>, !.date_value = <<"1:00 pm/xy">>,
                   !.time = <<"1:00 pm">>]

\* "C" on Aug. 3
CellC ==
    [NoCell EXCEPT !.title = <<"C">>, !.date_value = <<"08/03/2025">>,
                   !.time = <<"1:00 pm">>]

\* a row whose title cell holds the header text "Time"
CellTime ==
    [NoCell EXCEPT !.title = <<"T", "i", "m", "e">>, !.location = <<"R">>]

\* a row whose title cell is empty
CellNoTitle == [NoCell EXCEPT !.time = <<"1:00 pm">>]

\* a row whose markup makes the extraction raise
CellBroken == [NoCell EXCEPT !.title = <<"B">>, !.raises = TRUE]

\* what one page request may answer: a failure, a page without date cells, and
\* pages that list a session more than once: a cell twice, a cell without title
\* before a cell and its duplicate, a cell that raises before a good one
PageAnswers ==
    {FetchError, PageOf(<<>>), PageOf(<<CellB, CellB>>), PageOf(<<CellC, CellC>>),
     PageOf(<<CellNoTitle, CellA, CellA2>>), PageOf(<<CellBroken, CellTime, CellTime>>)}

\* scrape_all_sessions' max_pages
max_pages == 10

RECURSIVE FirstOfKey(_, _)
\* the record of what a run extracted: per (title, date, time, location) the
\* first session extracted, and whether a later one had the same four fields
FirstOfKey(date_cells, acc) ==
    IF date_cells = <<>> THEN acc
    ELSE LET extracted == extract_session_from_cell(Head(date_cells))
         IN  IF extracted = <<>> THEN FirstOfKey(Tail(date_cells), acc)
             ELSE IF \A e \in acc : SessionKey(e.first) # SessionKey(extracted[1])
                  THEN FirstOfKey(Tail(date_cells),
                                  acc \cup {[first |-> extracted[1], again |-> FALSE]})
                  ELSE FirstOfKey(Tail(date_cells),
                                  {IF SessionKey(e.first) = SessionKey(extracted[1])
                                   THEN [e EXCEPT !.again = TRUE] ELSE e : e \in acc})

(***************************************************************************)
(* The table-row extractors (fetch_all_sessions.py, scrape_all_sessions.py)*)
(***************************************************************************)
\* the if/elif chain of fetch_ncsl_2025_sessions on the lower-cased title
fetch_type_chain ==
    <<<<<<<<"g", "e", "n", "e", "r", "a", "l", " ", "s", "e", "s", "s", "i", "o", "n">>>>, "General Session">>,
      <<<<<<"b", "r", "e", "a", "k", "f", "a", "s", "t">>>>, "Breakfast Session">>,
      <<<<<<"l", "u", "n", "c", "h">>>>, "Lunch Session">>,
      <<<<<<"r", "e", "c", "e", "p", "t", "i", "o", "n">>>>, "Reception">>,
      <<<<<<"w", "o", "r", "k", "s", "h", "o", "p">>>>, "Workshop">>,
      <<<<<<"r", "o", "u", "n", "d", "t", "a", "b", "l", "e">>>>, "Roundtable">>,
      <<<<<<"m", "e", "e", "t", "i", "n", "g">>>>, "Meeting">>>>

\* the if/elif chain of extract_all_ncsl_sessions: a branch may ask for two words
extract_type_chain ==
    <<<<<<<<"g", "e", "n", "e", "r", "a", "l", " ", "s", "e", "s", "s", "i", "o", "n">>>>, "General Session">>,
      <<<<<<"b", "r", "e", "a", "k", "f", "a", "s", "t">>>>, "Breakfast Session">>,
      <<<<<<"l", "u", "n", "c", "h">>>>, "Lunch Session">>,
      <<<<<<"r", "e", "c", "e", "p", "t", "i", "o", "n">>>>, "Reception">>,
      <<<<<<"c", "o", "m", "m", "i", "t", "t", "e", "e">>, <<"m", "e", "e", "t", "i", "n", "g">>>>, "Committee Meeting">>,
      <<<<<<"t", "a", "s", "k", " ", "f", "o", "r", "c", "e">>>>, "Task Force Meeting">>,
      <<<<<<"w", "o", "r", "k", "s", "h", "o", "p">>>>, "Workshop">>,
      <<<<<<"r", "o", "u", "n", "d", "t", "a", "b", "l", "e">>>>, "Roundtable">>,
      <<<<<<"e", "x", "h", "i", "b", "i", "t", " ", "h", "a", "l", "l">>>>, "Exhibit Hall Event">>,
      <<<<<<"l", "e", "a", "r", "n", "i", "n", "g", " ", "h", "u", "b">>>>, "Learning Hub Session">>>>

\* fetch_ncsl_2025_sessions: the type of a title
fetch_session_type(title) == FirstMatch(fetch_type_chain, 1, LowerText(title))

\* extract_all_ncsl_sessions: the session_type of a title
extract_session_type(title) == FirstMatch(extract_type_chain, 1, LowerText(title))

\* the header texts
TextTime == <<"T", "i", "m", "e">>

TextTimeRoom == <<"T", "i", "m", "e", "/", "R", "o", "o", "m">>

TextDate == <<"D", "a", "t", "e">>

RECURSIVE RemoveAtom(_, _)
\* str.replace(marker, '') for a marker that is one atom
RemoveAtom(t, marker) ==
    IF t = <<>> THEN <<>>
    ELSE IF Head(t) = marker THEN RemoveAtom(Tail(t), marker)
    ELSE <<Head(t)>> \o RemoveAtom(Tail(t), marker)

RECURSIVE StripLeft(_)
StripLeft(t) == IF t # <<>> /\ Head(t) = " " THEN StripLeft(Tail(t)) ELSE t

RECURSIVE StripRight(_)
StripRight(t) ==
    IF t # <<>> /\ t[Len(t)] = " " THEN StripRight(SubSeq(t, 1, Len(t) - 1)) ELSE t

\* str.strip()
Strip(t) == StripRight(StripLeft(t))

\* len(str.split()): the runs of atoms that are no blank
WordCount(t) ==
    Cardinality({i \in 1..Len(t) : t[i] # " " /\ (i = 1 \/ t[i - 1] = " ")})

\* the first line that holds the marker, with the marker removed and stripped:
\* <<text>>, or <<>> when no line holds it
FirstMarked(lines, marker) ==
    IF \E i \in 1..Len(lines) : IsSubstring(<<marker>>, lines[i])
    THEN LET i == CHOOSE i \in 1..Len(lines) :
                      /\ IsSubstring(<<marker>>, lines[i])
                      /\ \A j \in 1..(i - 1) : ~IsSubstring(<<marker>>, lines[j])
         IN  <<Strip(RemoveAtom(lines[i], marker))>>
    ELSE <<>>

\* a table row as BeautifulSoup hands it over: its number of cells, the text of
\* the first cell, the stripped non-empty lines of the second, and whether
\* reading its markup raises
NoRow == [cells |-> 2, first |-> <<"9">>, lines |-> <<>>, raises |-> FALSE]

\* fetch_ncsl_2025_sessions' skip_keywords
skip_keywords == <<<<"location:">>, <<"track:">>, <<"description:">>, <<"note:">>, <<"sponsored">>>>

\* fetch_ncsl_2025_sessions: whether a line after the title is taken as a speaker
FetchSpeakerLine(line, location, track) ==
    /\ \A k \in 1..Len(skip_keywords) : ~IsSubstring(skip_keywords[k], LowerText(line))
    /\ <<line>> # location /\ <<line>> # track
    /\ \/ IsSubstring(<<",">>, line)
       \/ 2 <= WordCount(line) /\ WordCount(line) <= 5 /\ IsUpperChar(line[1])
    /\ Len(line) < 100

\* the name part of a speaker line: what stands before the first comma
NamePart(line) ==
    Strip(IF \E i \in 1..Len(line) : line[i] = ","
          THEN SubSeq(line, 1, (CHOOSE i \in 1..Len(line) :
                                   line[i] = "," /\ \A j \in 1..(i - 1) : line[j] # ",") - 1)
          ELSE line)

\* fetch_ncsl_2025_sessions, one row: what the row adds to sessions, speakers_set
\* and tracks_set, for a row that does not raise
FetchRow(row) ==
    IF row.cells < 2 \/ LowerText(row.first) \in {LowerText(TextTime), LowerText(TextDate), <<>>}
          \/ row.lines = <<>>
    THEN [sessions |-> <<>>, names |-> {}, tracks |-> {}]
    ELSE LET title == row.lines[1]
             location == FirstMarked(row.lines, "Location:")
             track == FirstMarked(row.lines, "Track:")
             spoken == SelectSeq(Tail(row.lines),
                                 LAMBDA line : FetchSpeakerLine(line, location, track))
             session ==
                 [NoSession EXCEPT
                    !.keys = {"time", "title", "type"}
                             \cup (IF location # <<>> THEN {"location"} ELSE {})
                             \cup (IF track # <<>> THEN {"track"} ELSE {})
                             \cup (IF spoken # <<>> THEN {"speakers"} ELSE {}),
                    !.time = row.first,
                    !.title = title,
                    !.location = IF location # <<>> THEN location[1] ELSE <<>>,
                    !.track = IF track # <<>> THEN track[1] ELSE <<>>,
                    !.speakers = [i \in 1..Len(spoken) |-> Str(spoken[i])],
                    !.type = fetch_session_type(title)]
         IN  [sessions |-> IF title # <<>> /\ title \notin {<<>>, TextTime}
                           THEN <<session>> ELSE <<>>,
              names |-> {NamePart(spoken[i]) : i \in 1..Len(spoken)} \ {<<>>},
              tracks |-> IF track # <<>> THEN {track[1]} ELSE {}]

RECURSIVE SortedTexts(_)
\* sorted(list(a set of str))
SortedTexts(S) ==
    IF S = {} THEN <<>>
    ELSE LET least == CHOOSE x \in S : \A y \in S : ~TextLess(y, x)
         IN  <<least>> \o SortedTexts(S \ {least})

\* the answer of the web server to the one request of the table-row extractors:
\* the rows of the tables and the div containers of the page
NoPage == [ok |-> FALSE, rows |-> <<>>, divs |-> <<>>]

TablePage(rows, divs) == [ok |-> TRUE, rows |-> rows, divs |-> divs]

\* fetch_ncsl_2025_sessions: what it returns (and writes): None when the fetch
\* fails or a row raises
fetch_ncsl_2025_sessions(fetched) ==
    IF ~fetched.ok \/ \E i \in 1..Len(fetched.rows) : fetched.rows[i].raises
    THEN ReturnedNone
    ELSE LET got == [i \in 1..Len(fetched.rows) |-> FetchRow(fetched.rows[i])]
         IN  [kind |-> "dataset",
              sessions |-> Flatten([i \in 1..Len(got) |-> got[i].sessions]),
              speakers |-> LET names == UNION {got[i].names : i \in 1..Len(got)}
                               sorted == SortedTexts(names)
                           IN  [i \in 1..Len(sorted) |-> Str(sorted[i])]]

\* the venue names extract_all_ncsl_sessions takes for a location line
venues == <<"BCEC", "Westin", "Omni">>

InVenue(line) == \E v \in 1..Len(venues) : IsSubstring(<<venues[v]>>, line)

\* the words extract_all_ncsl_sessions takes for a speaker's office
office_words ==
    <<<<"senator">>, <<"representative">>, <<"speaker">>, <<"president">>,
      <<"director">>, <<"chair">>>>

\* extract_all_ncsl_sessions' date_map.get(date_part, date_part)
date_map(date_part) ==
    IF date_part = <<"Saturday, Aug. 2">> THEN <<"2025-08-02">>
    ELSE IF date_part = <<"Sunday, Aug. 3">> THEN <<"2025-08-03">>
    ELSE IF date_part = <<"Monday, Aug. 4">> THEN <<"2025-08-04">>
    ELSE IF date_part = <<"Tuesday, Aug. 5">> THEN <<"2025-08-05">>
    ELSE IF date_part = <<"Wednesday, Aug. 6">> THEN <<"2025-08-06">>
    ELSE date_part

\* the positions of the separator in a text, and the n-th part of str.split(sep)
SepPositions(t, sep) == {i \in 1..Len(t) : t[i] = sep}

SplitPart(t, sep, n) ==
    LET cuts == SepPositions(t, sep)
        before(i) == Cardinality({c \in cuts : c < i})
    IN  SelectSeq([i \in 1..Len(t) |-> IF t[i] # sep /\ before(i) = n - 1
                                       THEN <<t[i]>> ELSE <<>>],
                  LAMBDA x : x # <<>>)

\* the atoms of SplitPart, unwrapped
PartText(t, sep, n) ==
    LET wrapped == SplitPart(t, sep, n) IN [i \in 1..Len(wrapped) |-> wrapped[i][1]]

\* extract_all_ncsl_sessions: the location loop over the lines
ExtractLocation(lines) ==
    LET hit(i) == IsSubstring(<<"Location:">>, lines[i]) \/ (i > 1 /\ InVenue(lines[i]))
    IN  IF \E i \in 1..Len(lines) : hit(i)
        THEN LET i == CHOOSE i \in 1..Len(lines) : hit(i) /\ \A j \in 1..(i - 1) : ~hit(j)
             IN  IF IsSubstring(<<"Location:">>, lines[i])
                 THEN <<Strip(RemoveAtom(lines[i], "Location:"))>>
                 ELSE <<lines[i]>>
        ELSE <<>>

\* extract_all_ncsl_sessions: the lines after the title, up to the first line
\* with location or track information, that look like a speaker
ExtractSpeakerLines(lines) ==
    LET stop(i) == \/ IsSubstring(<<"Location:">>, lines[i])
                   \/ IsSubstring(<<"Track:">>, lines[i])
                   \/ InVenue(lines[i])
        end_idx == IF \E i \in 2..Len(lines) : stop(i)
                   THEN CHOOSE i \in 2..Len(lines) : stop(i) /\ \A j \in 2..(i - 1) : ~stop(j)
                   ELSE Len(lines) + 1
        likely(line) ==
            \/ IsSubstring(<<",">>, line)
            \/ 2 <= WordCount(line) /\ WordCount(line) <= 6 /\ IsUpperChar(line[1])
            \/ \E w \in 1..Len(office_words) : IsSubstring(office_words[w], LowerText(line))
    IN  SelectSeq(SubSeq(lines, 2, end_idx - 1), LAMBDA line : likely(line) /\ Len(line) < 200)

\* extract_all_ncsl_sessions, one table row that does not raise
ExtractRow(row) ==
    IF row.cells < 2
          \/ LowerText(row.first) \in {LowerText(TextTime), LowerText(TextDate),
                                       LowerText(TextTimeRoom), <<>>}
          \/ row.lines = <<>>
    THEN [sessions |-> <<>>, names |-> {}]
    ELSE LET title == row.lines[1]
             dated == IsSubstring(<<"|">>, row.first)
             location == ExtractLocation(row.lines)
             track == FirstMarked(row.lines, "Track:")
             spoken == ExtractSpeakerLines(row.lines)
             session ==
                 [NoSession EXCEPT
                    !.keys = {"time", "title", "session_type"}
                             \cup (IF dated THEN {"date"} ELSE {})
                             \cup (IF location # <<>> THEN {"location"} ELSE {})
                             \cup (IF track # <<>> THEN {"track"} ELSE {})
                             \cup (IF spoken # <<>> THEN {"speakers"} ELSE {}),
                    !.date = IF dated THEN date_map(Strip(PartText(row.first, "|", 1)))
                             ELSE <<>>,
                    !.time = IF dated THEN Strip(PartText(row.first, "|", 2)) ELSE row.first,
                    !.title = title,
                    !.location = IF location # <<>> THEN location[1] ELSE <<>>,
                    !.track = IF track # <<>> THEN track[1] ELSE <<>>,
                    !.speakers = [i \in 1..Len(spoken) |-> Str(spoken[i])],
                    !.session_type = extract_session_type(title)]
         IN  [sessions |-> IF title # <<>> /\ title \notin {TextTimeRoom, <<>>}
                           THEN <<session>> ELSE <<>>,
              names |-> {n \in {NamePart(spoken[i]) : i \in 1..Len(spoken)} :
                            n # <<>> /\ WordCount(n) <= 5}]

\* a div container: the elements found in it and their stripped texts
NoDiv ==
    [found |-> {}, title |-> <<>>, time |-> <<>>, speakers |-> <<>>,
     location |-> <<>>, track |-> <<>>]

\* extract_all_ncsl_sessions, one div container
ExtractDiv(div) ==
    LET spoken == SelectSeq(div.speakers, LAMBDA text : text # <<>>)
        session ==
            [NoSession EXCEPT
               !.keys = (div.found \ {"speakers"})
                        \cup (IF "speakers" \in div.found /\ spoken # <<>>
                              THEN {"speakers"} ELSE {}),
               !.title = IF "title" \in div.found THEN div.title ELSE <<>>,
               !.time = IF "time" \in div.found THEN div.time ELSE <<>>,
               !.location = IF "location" \in div.found THEN div.location ELSE <<>>,
               !.track = IF "track" \in div.found THEN div.track ELSE <<>>,
               !.speakers = IF "speakers" \in div.found
                            THEN [i \in 1..Len(spoken) |-> Str(spoken[i])] ELSE <<>>]
    IN  [sessions |-> IF Get(session, "title", <<>>) # <<>> THEN <<session>> ELSE <<>>,
         names |-> IF "speakers" \in div.found
                   THEN {NamePart(spoken[i]) : i \in 1..Len(spoken)} \ {<<>>}
                   ELSE {}]

RECURSIVE UniqueSessions(_, _, _)
\* extract_all_ncsl_sessions: the first session of each (title, time) is kept
UniqueSessions(ss, seen, unique) ==
    IF ss = <<>> THEN unique
    ELSE LET key == <<Get(ss[1], "title", <<>>), Get(ss[1], "time", <<>>)>>
         IN  IF key \in seen THEN UniqueSessions(Tail(ss), seen, unique)
             ELSE UniqueSessions(Tail(ss), seen \cup {key}, Append(unique, ss[1]))

\* extract_all_ncsl_sessions: what it returns (and writes): None when the fetch
\* fails or a row raises
extract_all_ncsl_sessions(fetched) ==
    IF ~fetched.ok \/ \E i \in 1..Len(fetched.rows) : fetched.rows[i].raises
    THEN ReturnedNone
    ELSE LET rows == [i \in 1..Len(fetched.rows) |-> ExtractRow(fetched.rows[i])]
             divs == [i \in 1..Len(fetched.divs) |-> ExtractDiv(fetched.divs[i])]
             got == rows \o divs
         IN  [kind |-> "dataset",
              sessions |-> UniqueSessions(Flatten([i \in 1..Len(got) |-> got[i].sessions]),
                                          {}, <<>>),
              speakers |-> LET sorted == SortedTexts(UNION {got[i].names : i \in 1..Len(got)})
                           IN  [i \in 1..Len(sorted) |-> Str(sorted[i])]]

\* the rows and div containers of the modelled pages
RowSession ==
    [NoRow EXCEPT !.lines = <<<<"A">>, <<"J", ",", " ", "X">>, <<"Location:", " ", "R">>,
                              <<"Track:", "a">>>>]

RowDated ==
    [NoRow EXCEPT !.first = <<"Saturday, Aug. 2", " ", "|", " ", "9">>,
                  !.lines = <<<<"A">>, <<"J", " ", "K">>, <<"BCEC">>, <<"Q", " ", "Z">>>>]

RowTimeRoom == [NoRow EXCEPT !.lines = <<TextTimeRoom>>]

RowTime == [NoRow EXCEPT !.lines = <<TextTime, <<"B", "a", ",", " ", "x">>>>]

RowHeader == [NoRow EXCEPT !.first = TextTimeRoom, !.lines = <<<<"S">>>>]

RowShort == [NoRow EXCEPT !.cells = 1]

RowBroken == [NoRow EXCEPT !.raises = TRUE]

DivSession ==
    [NoDiv EXCEPT !.found = {"title", "time", "speakers"}, !.title = <<"A">>,
                  !.time = <<"9">>, !.speakers = <<<<"K", ",", "Y">>, <<>>>>]

DivTime == [NoDiv EXCEPT !.found = {"title", "track"}, !.title = TextTime, !.track = <<"a">>]

DivNoTitle == [NoDiv EXCEPT !.found = {"time"}, !.time = <<"9">>]

RowPool == {RowSession, RowDated, RowTimeRoom, RowTime, RowHeader, RowShort, RowBroken}

\* what the one request of a table-row extractor may answer
TableAnswers ==
    {NoPage, TablePage(<<>>, <<>>)}
        \cup {TablePage(<<r>>, <<>>) : r \in RowPool}
        \cup {TablePage(<<>>, <<d>>) : d \in {DivSession, DivTime, DivNoTitle}}
        \cup {TablePage(<<RowSession, RowDated>>, <<DivSession>>),
              TablePage(<<RowSession, RowBroken>>, <<>>)}

\* the files of the program's working directory
MainFile == "ncsl_sessions.json"

FinalFile == "ncsl_sessions_complete_final.json"

File2025 == "ncsl_sessions_2025.json"

FullFile == "ncsl_sessions_full.json"

FileNames == {MainFile, FinalFile, File2025, FullFile}

VARIABLES
    disk,            \* the content of each file of FileNames
    \* the serving process (app.py)
    pc,              \* where the serving process is
    sessions,        \* SessionManager.sessions
    speakers,        \* SessionManager.speakers
    tracks,          \* SessionManager.tracks
    loadOutcome,     \* how load_data ended for its caller
    notFoundPrinted, \* "Session data not found..." was printed
    fileAtLoad,      \* the kind of ncsl_sessions.json when load_data opened it
    existedAtCheck,  \* what os.path.exists answered in __main__
    extractor,       \* the scraper.py subprocess of the bootstrap
    served,          \* requests answered so far
    response,        \* the last request and its answer
    \* an extractor process (scraper.py, fetch_all_sessions.py, scrape_all_sessions.py)
    variant,         \* which extractor runs
    xpc,             \* where the extractor is
    seen_sessions,   \* FinalNCSLScraper.seen_sessions
    all_sessions,    \* scrape_all_sessions' all_sessions
    page,            \* scrape_all_sessions' page
    pages_without_new_content,
    runs,            \* extraction runs started so far
    fetchFailed,     \* a page fetch of the current run failed
    extractedFirst,  \* per (title, date, time, location) extracted in the current run: the first session, and whether it recurred
    diskBefore,      \* the files as the current run found them
    returned,        \* what the current run returned
    \* a session-type classification
    titleIn,         \* the title handed to a classifier
    classifier,      \* which extractor's classification ran
    labelOut         \* the label it gave

appVars ==
    <<pc, sessions, speakers, tracks, loadOutcome, notFoundPrinted, fileAtLoad,
      existedAtCheck, extractor, served, response>>

extractVars ==
    <<variant, xpc, seen_sessions, all_sessions, page, pages_without_new_content,
      runs, fetchFailed, extractedFirst, diskBefore, returned>>

extractVarsButPc ==
    <<variant, seen_sessions, all_sessions, page, pages_without_new_content,
      runs, fetchFailed, extractedFirst, diskBefore, returned>>

classifyVars == <<titleIn, classifier, labelOut>>

vars == <<disk, appVars, extractVars, classifyVars>>

\* no classification on its own in the behaviours of the processes
NoClassifier ==
    /\ titleIn = <<>>
    /\ classifier = "none"
    /\ labelOut = ""

(***************************************************************************)
(* SessionManager                                                          *)
(***************************************************************************)
RECURSIVE LoadTracks(_, _)
\* load_data's loop over the sessions: `track`, else `tracks`
LoadTracks(ss, acc) ==
    IF ss = <<>> THEN acc
    ELSE LET s == Head(ss)
             add == IF "track" \in s.keys THEN {s.track}
                    ELSE IF "tracks" \in s.keys
                         THEN {s.tracks[i] : i \in 1..Len(s.tracks)}
                         ELSE {}
         IN  LoadTracks(Tail(ss), acc \cup add)

\* load_data without its `except FileNotFoundError`: the error reaches the caller
load_data_Uncaught(f) ==
    IF f.kind = "dataset"
    THEN [outcome |-> "returned", printed |-> FALSE,
          sessions |-> f.sessions, speakers |-> f.speakers,
          tracks |-> LoadTracks(f.sessions, {})]
    ELSE [outcome |-> "raised", printed |-> FALSE,
          sessions |-> <<>>, speakers |-> <<>>, tracks |-> {}]

\* load_data: what it leaves in the manager and how it ends, for a file
load_data(f) ==
    CASE f.kind = "absent" ->
            [outcome |-> "returned", printed |-> TRUE,
             sessions |-> <<>>, speakers |-> <<>>, tracks |-> {}]
      [] f.kind = "invalid" ->
            [outcome |-> "raised", printed |-> FALSE,
             sessions |-> <<>>, speakers |-> <<>>, tracks |-> {}]
      [] OTHER ->
            [outcome |-> "returned", printed |-> FALSE,
             sessions |-> f.sessions, speakers |-> f.speakers,
             tracks |-> LoadTracks(f.sessions, {})]

RECURSIVE AnySpeaker(_, _)
\* any(query_lower in sp.lower() for sp in speakers): a dict has no lower()
AnySpeaker(sps, query_lower) ==
    IF sps = <<>> THEN "false"
    ELSE IF Head(sps).tag # "str" THEN "raise"
    ELSE IF IsSubstring(query_lower, LowerText(Head(sps).str)) THEN "true"
    ELSE AnySpeaker(Tail(sps), query_lower)

\* the query condition comparing the fields as they are, not lower-cased
QueryTest_CaseSensitive(s, query_lower) ==
    IF IsSubstring(query_lower, Get(s, "title", <<>>)) THEN "true"
    ELSE IF IsSubstring(query_lower, Get(s, "description", <<>>)) THEN "true"
    ELSE AnySpeaker(Get(s, "speakers", <<>>), query_lower)

\* the condition of the query filter for one session
QueryTest(s, query_lower) ==
    IF IsSubstring(query_lower, LowerText(Get(s, "title", <<>>))) THEN "true"
    ELSE IF IsSubstring(query_lower, LowerText(Get(s, "description", <<>>))) THEN "true"
    ELSE AnySpeaker(Get(s, "speakers", <<>>), query_lower)

\* the track condition reading `tracks` only when `track` is absent
TrackTest_Elif(s, track) ==
    IF "track" \in s.keys THEN track = s.track
    ELSE \E i \in 1..Len(Get(s, "tracks", <<>>)) : Get(s, "tracks", <<>>)[i] = track

\* the condition of the track filter for one session
TrackTest(s, track) ==
    \/ track = Get(s, "track", <<>>)
    \/ \E i \in 1..Len(Get(s, "tracks", <<>>)) : Get(s, "tracks", <<>>)[i] = track

\* the speaker condition as a substring match on the str entries
SpeakerTest_Substring(s, speaker) ==
    \E i \in 1..Len(Get(s, "speakers", <<>>)) :
        /\ Get(s, "speakers", <<>>)[i].tag = "str"
        /\ IsSubstring(speaker, Get(s, "speakers", <<>>)[i].str)

\* the condition of the speaker filter for one session
SpeakerTest(s, speaker) == PyIn(Str(speaker), Get(s, "speakers", <<>>))

RECURSIVE FilterQuery(_, _)
\* [s for s in results if <query condition>], which raises where the condition does
FilterQuery(ss, query_lower) ==
    IF ss = <<>> THEN [raised |-> FALSE, list |-> <<>>]
    ELSE LET t == QueryTest(Head(ss), query_lower)
         IN  IF t = "raise" THEN [raised |-> TRUE, list |-> <<>>]
             ELSE LET rest == FilterQuery(Tail(ss), query_lower)
                  IN  IF rest.raised THEN rest
                      ELSE [raised |-> FALSE,
                            list |-> IF t = "true" THEN <<Head(ss)>> \o rest.list
                                     ELSE rest.list]

RECURSIVE FilterTrack(_, _)
FilterTrack(ss, track) ==
    IF ss = <<>> THEN <<>>
    ELSE IF TrackTest(Head(ss), track)
         THEN <<Head(ss)>> \o FilterTrack(Tail(ss), track)
         ELSE FilterTrack(Tail(ss), track)

RECURSIVE FilterSpeaker(_, _)
FilterSpeaker(ss, speaker) ==
    IF ss = <<>> THEN <<>>
    ELSE IF SpeakerTest(Head(ss), speaker)
         THEN <<Head(ss)>> \o FilterSpeaker(Tail(ss), speaker)
         ELSE FilterSpeaker(Tail(ss), speaker)

\* SessionManager.search_sessions
search_sessions(ss, query, track, speaker) ==
    LET r1 == IF query # <<>> THEN FilterQuery(ss, LowerText(query))
              ELSE [raised |-> FALSE, list |-> ss]
        r2 == IF track # <<>> THEN FilterTrack(r1.list, track) ELSE r1.list
        r3 == IF speaker # <<>> THEN FilterSpeaker(r2, speaker) ELSE r2
    IN  IF r1.raised THEN [raised |-> TRUE, list |-> <<>>]
        ELSE [raised |-> FALSE, list |-> r3]

\* SessionManager.get_speaker_sessions
get_speaker_sessions(ss, speaker_name) ==
    [raised |-> FALSE, list |-> FilterSpeaker(ss, speaker_name)]

\* SessionManager.get_stats
get_stats(ss, sp, tr) ==
    [total_sessions |-> Len(ss),
     total_speakers |-> Len(sp),
     total_tracks |-> Cardinality(tr),
     tracks |-> tr,
     session_types |-> {Get(ss[i], "type", "Session") : i \in 1..Len(ss)}]

NoStats ==
    [total_sessions |-> 0, total_speakers |-> 0, total_tracks |-> 0,
     tracks |-> {}, session_types |-> {}]

NoResponse ==
    [op |-> "none", query |-> <<>>, track |-> <<>>, speaker |-> <<>>,
     raised |-> FALSE, list |-> <<>>, stats |-> NoStats]

(***************************************************************************)
(* The serving process of app.py                                           *)
(***************************************************************************)
\* the datasets scraper.py's main() may leave in its own output file: that of a
\* run that found no session, and that of a run that found one
BootstrapOutputs == {FinalOutput(<<>>), FinalOutput(extract_session_from_cell(CellA))}

\* no extractor process in the behaviours of the serving process
NoExtractor ==
    /\ variant = "none"
    /\ xpc = "idle"
    /\ seen_sessions = {}
    /\ all_sessions = <<>>
    /\ page = 1
    /\ pages_without_new_content = 0
    /\ runs = 0
    /\ fetchFailed = FALSE
    /\ extractedFirst = {}
    /\ diskBefore = disk
    /\ returned = NotReturned

Init ==
    /\ \E f \in Files : disk = [n \in FileNames |-> IF n = MainFile THEN f ELSE AbsentFile]
    /\ NoExtractor
    /\ NoClassifier
    /\ pc = "start"
    /\ sessions = <<>>
    /\ speakers = <<>>
    /\ tracks = {}
    /\ loadOutcome = "none"
    /\ notFoundPrinted = FALSE
    /\ fileAtLoad = "none"
    /\ existedAtCheck = "unchecked"
    /\ extractor = "not_invoked"
    /\ served = 0
    /\ response = NoResponse

\* session_manager = SessionManager(), at module level: __init__ and load_data
ModuleImport ==
    /\ pc = "start"
    /\ LET r == load_data(disk[MainFile])
       IN  /\ sessions' = r.sessions
           /\ speakers' = r.speakers
           /\ tracks' = r.tracks
           /\ loadOutcome' = r.outcome
           /\ notFoundPrinted' = r.printed
           /\ pc' = IF r.outcome = "raised" THEN "crashed" ELSE "main"
    /\ fileAtLoad' = disk[MainFile].kind
    /\ UNCHANGED <<disk, existedAtCheck, extractor, served, response>>
    /\ UNCHANGED extractVars
    /\ UNCHANGED classifyVars

\* __main__ with the test of the file's existence inverted
CheckDataFile_Inverted ==
    /\ pc = "main"
    /\ existedAtCheck' = IF disk[MainFile].kind = "absent" THEN "absent" ELSE "present"
    /\ pc' = IF disk[MainFile].kind = "absent" THEN "run" ELSE "bootstrap"
    /\ UNCHANGED <<disk, sessions, speakers, tracks, loadOutcome,
                   notFoundPrinted, fileAtLoad, extractor, served, response>>
    /\ UNCHANGED extractVars
    /\ UNCHANGED classifyVars

\* __main__: if not os.path.exists('ncsl_sessions.json')
CheckDataFile ==
    /\ pc = "main"
    /\ existedAtCheck' = IF disk[MainFile].kind = "absent" THEN "absent" ELSE "present"
    /\ pc' = IF disk[MainFile].kind = "absent" THEN "bootstrap" ELSE "run"
    /\ UNCHANGED <<disk, sessions, speakers, tracks, loadOutcome,
                   notFoundPrinted, fileAtLoad, extractor, served, response>>
    /\ UNCHANGED extractVars
    /\ UNCHANGED classifyVars

\* subprocess.run(['python', 'scraper.py']): blocks until the child has ended;
\* the child's main() saves to its default file, or dies before saving
RunScraperSubprocess ==
    /\ pc = "bootstrap"
    /\ \/ \E out \in BootstrapOutputs : disk' = [disk EXCEPT ![FinalFile] = out]
       \/ UNCHANGED disk
    /\ extractor' = "finished"
    /\ pc' = "run"
    /\ UNCHANGED <<sessions, speakers, tracks, loadOutcome,
                   notFoundPrinted, fileAtLoad, existedAtCheck, served, response>>
    /\ UNCHANGED extractVars
    /\ UNCHANGED classifyVars

\* app.run(debug=True, port=5000)
AppRun ==
    /\ pc = "run"
    /\ pc' = "serving"
    /\ UNCHANGED <<disk, sessions, speakers, tracks, loadOutcome,
                   notFoundPrinted, fileAtLoad, existedAtCheck, extractor, served, response>>
    /\ UNCHANGED extractVars
    /\ UNCHANGED classifyVars

Count(n) == IF n < MaxRequests THEN n + 1 ELSE n

\* /api/sessions with a search that filters self.sessions in place
ApiSessions_InPlace ==
    /\ pc = "serving"
    /\ \E query \in Queries, track \in TrackArgs, speaker \in SpeakerArgs :
          LET r == search_sessions(sessions, query, track, speaker)
          IN  response' = [NoResponse EXCEPT !.op = "search", !.query = query,
                                             !.track = track, !.speaker = speaker,
                                             !.raised = r.raised, !.list = r.list]
    /\ served' = Count(served)
    /\ sessions' = response'.list
    /\ UNCHANGED <<disk, pc, speakers, tracks, loadOutcome,
                   notFoundPrinted, fileAtLoad, existedAtCheck, extractor>>
    /\ UNCHANGED extractVars
    /\ UNCHANGED classifyVars

\* /api/sessions
ApiSessions ==
    /\ pc = "serving"
    /\ \E query \in Queries, track \in TrackArgs, speaker \in SpeakerArgs :
          LET r == search_sessions(sessions, query, track, speaker)
          IN  response' = [NoResponse EXCEPT !.op = "search", !.query = query,
                                             !.track = track, !.speaker = speaker,
                                             !.raised = r.raised, !.list = r.list]
    /\ served' = Count(served)
    /\ UNCHANGED <<disk, pc, sessions, speakers, tracks, loadOutcome,
                   notFoundPrinted, fileAtLoad, existedAtCheck, extractor>>
    /\ UNCHANGED extractVars
    /\ UNCHANGED classifyVars

\* /api/speaker/<speaker_name>
ApiSpeakerSessions ==
    /\ pc = "serving"
    /\ \E speaker_name \in SpeakerArgs :
          LET r == get_speaker_sessions(sessions, speaker_name)
          IN  response' = [NoResponse EXCEPT !.op = "speaker", !.speaker = speaker_name,
                                             !.raised = r.raised, !.list = r.list]
    /\ served' = Count(served)
    /\ UNCHANGED <<disk, pc, sessions, speakers, tracks, loadOutcome,
                   notFoundPrinted, fileAtLoad, existedAtCheck, extractor>>
    /\ UNCHANGED extractVars
    /\ UNCHANGED classifyVars

\* /api/stats
ApiStats ==
    /\ pc = "serving"
    /\ response' = [NoResponse EXCEPT !.op = "stats",
                                      !.stats = get_stats(sessions, speakers, tracks)]
    /\ served' = Count(served)
    /\ UNCHANGED <<disk, pc, sessions, speakers, tracks, loadOutcome,
                   notFoundPrinted, fileAtLoad, existedAtCheck, extractor>>
    /\ UNCHANGED extractVars
    /\ UNCHANGED classifyVars

Next ==
    \/ ModuleImport
    \/ CheckDataFile
    \/ RunScraperSubprocess
    \/ AppRun
    \/ ApiSessions
    \/ ApiSpeakerSessions
    \/ ApiStats

Spec == Init /\ [][Next]_vars

(***************************************************************************)
(* The extractor processes                                                 *)
(***************************************************************************)
\* the dataset a run may find on disk, left by an earlier extraction
PriorDataset == DatasetFile(<<SessAI>>, <<Str(<<"B", "a">>)>>)

\* no serving process in the behaviours of the extractors
NoApp ==
    /\ pc = "off"
    /\ sessions = <<>>
    /\ speakers = <<>>
    /\ tracks = {}
    /\ loadOutcome = "none"
    /\ notFoundPrinted = FALSE
    /\ fileAtLoad = "none"
    /\ existedAtCheck = "unchecked"
    /\ extractor = "not_invoked"
    /\ served = 0
    /\ response = NoResponse

ExtractInit ==
    /\ \E prior \in {AbsentFile, PriorDataset} : disk = [n \in FileNames |-> prior]
    /\ NoApp
    /\ NoClassifier
    /\ variant \in {"final", "fetch", "extract_all"}
    /\ xpc = "start"
    /\ seen_sessions = {}
    /\ all_sessions = <<>>
    /\ page = 1
    /\ pages_without_new_content = 0
    /\ runs = 0
    /\ fetchFailed = FALSE
    /\ extractedFirst = {}
    /\ diskBefore = disk
    /\ returned = NotReturned

\* scraper = FinalNCSLScraper(), once per process: a new instance has seen no
\* session
NewScraper ==
    /\ variant = "final"
    /\ xpc = "start"
    /\ seen_sessions' = {}
    /\ xpc' = "idle"
    /\ UNCHANGED <<disk, variant, all_sessions, page, pages_without_new_content, runs,
                   fetchFailed, extractedFirst, diskBefore, returned>>
    /\ UNCHANGED appVars
    /\ UNCHANGED classifyVars

\* scrape_all_sessions is entered, on a new instance or on one that has run
StartScrape ==
    /\ variant = "final"
    /\ xpc \in {"idle", "scraped", "saved"}
    /\ runs < MaxRuns
    /\ runs' = runs + 1
    /\ all_sessions' = <<>>
    /\ page' = 1
    /\ pages_without_new_content' = 0
    /\ fetchFailed' = FALSE
    /\ extractedFirst' = {}
    /\ diskBefore' = disk
    /\ returned' = NotReturned
    /\ xpc' = "scraping"
    /\ UNCHANGED <<disk, variant, seen_sessions>>
    /\ UNCHANGED appVars
    /\ UNCHANGED classifyVars

\* a turn of the loop that does not reset the count of pages without new content
ScrapePage_NoReset ==
    /\ variant = "final"
    /\ xpc = "scraping"
    /\ page <= max_pages /\ pages_without_new_content < 3
    /\ \E fetched \in PageAnswers :
          LET got == get_page_sessions(fetched, seen_sessions)
          IN  /\ seen_sessions' = got.seen
              /\ IF got.sessions = <<>>
                 THEN /\ pages_without_new_content' = pages_without_new_content + 1
                      /\ UNCHANGED all_sessions
                 ELSE /\ pages_without_new_content' = pages_without_new_content
                      /\ all_sessions' = all_sessions \o got.sessions
              /\ fetchFailed' = (fetchFailed \/ ~fetched.ok)
              /\ extractedFirst' = FirstOfKey(fetched.date_cells, extractedFirst)
    /\ page' = page + 1
    /\ UNCHANGED <<disk, variant, xpc, runs, diskBefore, returned>>
    /\ UNCHANGED appVars
    /\ UNCHANGED classifyVars

\* one turn of scrape_all_sessions' while loop: get_page_sessions(page) and the
\* bookkeeping after it
ScrapePage ==
    /\ variant = "final"
    /\ xpc = "scraping"
    /\ page <= max_pages /\ pages_without_new_content < 3
    /\ \E fetched \in PageAnswers :
          LET got == get_page_sessions(fetched, seen_sessions)
          IN  /\ seen_sessions' = got.seen
              /\ IF got.sessions = <<>>
                 THEN /\ pages_without_new_content' = pages_without_new_content + 1
                      /\ UNCHANGED all_sessions
                 ELSE /\ pages_without_new_content' = 0
                      /\ all_sessions' = all_sessions \o got.sessions
              /\ fetchFailed' = (fetchFailed \/ ~fetched.ok)
              /\ extractedFirst' = FirstOfKey(fetched.date_cells, extractedFirst)
    /\ page' = page + 1
    /\ UNCHANGED <<disk, variant, xpc, runs, diskBefore, returned>>
    /\ UNCHANGED appVars
    /\ UNCHANGED classifyVars

\* the loop is left and scrape_all_sessions returns its output
FinishScrape ==
    /\ variant = "final"
    /\ xpc = "scraping"
    /\ ~(page <= max_pages /\ pages_without_new_content < 3)
    /\ returned' = FinalOutput(all_sessions)
    /\ xpc' = "scraped"
    /\ UNCHANGED <<disk, variant, seen_sessions, all_sessions, page,
                   pages_without_new_content, runs, fetchFailed, extractedFirst, diskBefore>>
    /\ UNCHANGED appVars
    /\ UNCHANGED classifyVars

\* main(): scraper.save_results(data), to the default file name
SaveResults ==
    /\ variant = "final"
    /\ xpc = "scraped"
    /\ disk' = [disk EXCEPT ![FinalFile] = returned]
    /\ xpc' = "saved"
    /\ UNCHANGED extractVarsButPc
    /\ UNCHANGED appVars
    /\ UNCHANGED classifyVars

\* the record of what a run of a table-row extractor extracted: the sessions of
\* the rows and divs that do not raise, each as Extract(item) retains it
ItemsExtracted(fetched, Extract(_)) ==
    IF ~fetched.ok THEN {}
    ELSE {[first |-> Extract(item).sessions[1], again |-> FALSE] :
             item \in {fetched.rows[i] : i \in {j \in 1..Len(fetched.rows) :
                                                  /\ ~fetched.rows[j].raises
                                                  /\ Extract(fetched.rows[j]).sessions # <<>>}}}

\* the same for the div containers, which do not raise
DivsExtracted(fetched) ==
    IF ~fetched.ok THEN {}
    ELSE {[first |-> ExtractDiv(d).sessions[1], again |-> FALSE] :
             d \in {fetched.divs[i] : i \in {j \in 1..Len(fetched.divs) :
                                               ExtractDiv(fetched.divs[j]).sessions # <<>>}}}

\* python fetch_all_sessions.py: the request, the rows, the two files
RunFetchAllSessions ==
    /\ variant = "fetch"
    /\ xpc \in {"start", "done"}
    /\ runs < MaxRuns
    /\ \E fetched \in TableAnswers :
          LET out == fetch_ncsl_2025_sessions(fetched)
          IN  /\ returned' = out
              /\ fetchFailed' = ~fetched.ok
              /\ disk' = IF out.kind = "dataset"
                         THEN [disk EXCEPT ![File2025] = out, ![MainFile] = out]
                         ELSE disk
              /\ extractedFirst' = ItemsExtracted(fetched, FetchRow)
    /\ diskBefore' = disk
    /\ runs' = runs + 1
    /\ xpc' = "done"
    /\ UNCHANGED <<variant, seen_sessions, all_sessions, page, pages_without_new_content>>
    /\ UNCHANGED appVars
    /\ UNCHANGED classifyVars

\* python scrape_all_sessions.py: the request, the rows and divs, the two files
RunExtractAllSessions ==
    /\ variant = "extract_all"
    /\ xpc \in {"start", "done"}
    /\ runs < MaxRuns
    /\ \E fetched \in TableAnswers :
          LET out == extract_all_ncsl_sessions(fetched)
          IN  /\ returned' = out
              /\ fetchFailed' = ~fetched.ok
              /\ disk' = IF out.kind = "dataset"
                         THEN [disk EXCEPT ![FullFile] = out, ![MainFile] = out]
                         ELSE disk
              /\ extractedFirst' = ItemsExtracted(fetched, ExtractRow)
                                       \cup DivsExtracted(fetched)
    /\ diskBefore' = disk
    /\ runs' = runs + 1
    /\ xpc' = "done"
    /\ UNCHANGED <<variant, seen_sessions, all_sessions, page, pages_without_new_content>>
    /\ UNCHANGED appVars
    /\ UNCHANGED classifyVars

ExtractNext ==
    \/ NewScraper
    \/ StartScrape
    \/ ScrapePage
    \/ FinishScrape
    \/ SaveResults
    \/ RunFetchAllSessions
    \/ RunExtractAllSessions

ExtractSpec == ExtractInit /\ [][ExtractNext]_vars

\* the page loop on its own: scrape_all_sessions called on one scraper, its
\* result not saved
LoopInit == ExtractInit /\ variant = "final" /\ disk = [n \in FileNames |-> AbsentFile]

LoopNext ==
    \/ NewScraper
    \/ StartScrape
    \/ ScrapePage
    \/ FinishScrape

\* scrape_all_sessions runs in one thread: a turn of its loop that can be taken is
\* taken, and so is the return after the loop
LoopSpec ==
    LoopInit /\ [][LoopNext]_vars /\ WF_vars(ScrapePage) /\ WF_vars(FinishScrape)

(***************************************************************************)
(* What the specification says of the query service, stated on its own     *)
(* terms: these definitions read the claims, not the code.                 *)
(***************************************************************************)
(* Session-type classification on its own: a title is handed to the        *)
(* classification of one of the three extractors.                          *)
(***************************************************************************)
MaxWords == 2

\* the words the titles are made of
TitleWords ==
    {<<"B", "r", "e", "a", "k", "f", "a", "s", "t">>,
     <<"B", "R", "E", "A", "K", "F", "A", "S", "T">>,
     <<"G", "e", "n", "e", "r", "a", "l", " ", "S", "e", "s", "s", "i", "o", "n">>,
     <<"O", "p", "e", "n", "i", "n", "g", " ", "s", "e", "s", "s", "i", "o", "n">>,
     <<"l", "u", "n", "c", "h">>,
     <<"M", "e", "e", "t", "i", "n", "g">>,
     <<"C", "o", "m", "m", "i", "t", "t", "e", "e">>,
     <<"Q">>}

RECURSIVE TitlesUpTo(_)
\* the titles of at most n words, joined by one blank
TitlesUpTo(n) ==
    IF n = 0 THEN {<<>>}
    ELSE LET shorter == TitlesUpTo(n - 1)
         IN  shorter \cup {IF t = <<>> THEN w ELSE t \o <<" ">> \o w :
                              t \in shorter, w \in TitleWords}

ClassifyInit ==
    /\ disk = [n \in FileNames |-> AbsentFile]
    /\ NoApp
    /\ NoExtractor
    /\ titleIn \in TitlesUpTo(MaxWords)
    /\ classifier = "none"
    /\ labelOut = ""

\* FinalNCSLScraper.determine_session_type(title)
ClassifyFinal ==
    /\ classifier = "none"
    /\ classifier' = "final"
    /\ labelOut' = determine_session_type(titleIn)
    /\ UNCHANGED <<disk, titleIn>>
    /\ UNCHANGED appVars
    /\ UNCHANGED extractVars

\* the if/elif chain of fetch_ncsl_2025_sessions
ClassifyFetch ==
    /\ classifier = "none"
    /\ classifier' = "fetch"
    /\ labelOut' = fetch_session_type(titleIn)
    /\ UNCHANGED <<disk, titleIn>>
    /\ UNCHANGED appVars
    /\ UNCHANGED extractVars

\* the if/elif chain of extract_all_ncsl_sessions
ClassifyExtractAll ==
    /\ classifier = "none"
    /\ classifier' = "extract_all"
    /\ labelOut' = extract_session_type(titleIn)
    /\ UNCHANGED <<disk, titleIn>>
    /\ UNCHANGED appVars
    /\ UNCHANGED extractVars

ClassifyNext ==
    \/ ClassifyFinal
    \/ ClassifyFetch
    \/ ClassifyExtractAll

ClassifySpec == ClassifyInit /\ [][ClassifyNext]_vars

(***************************************************************************)
(* The serving process started while scrape_all_sessions.py runs in the    *)
(* same directory.  open(name, 'w') empties the file at once, json.dump    *)
(* fills it, and the file is complete when the `with` block is left: the   *)
(* writing of a file is two steps, and another process may run in between. *)
(***************************************************************************)
\* a file opened for writing and not yet closed: empty, or cut off inside the
\* document; json.load raises on either
FileBeingWritten == InvalidFile

ConcurrentInit ==
    /\ disk = [n \in FileNames |-> PriorDataset]
    /\ NoClassifier
    /\ pc = "start"
    /\ sessions = <<>>
    /\ speakers = <<>>
    /\ tracks = {}
    /\ loadOutcome = "none"
    /\ notFoundPrinted = FALSE
    /\ fileAtLoad = "none"
    /\ existedAtCheck = "unchecked"
    /\ extractor = "not_invoked"
    /\ served = 0
    /\ response = NoResponse
    /\ variant = "extract_all"
    /\ xpc = "start"
    /\ seen_sessions = {}
    /\ all_sessions = <<>>
    /\ page = 1
    /\ pages_without_new_content = 0
    /\ runs = 0
    /\ fetchFailed = FALSE
    /\ extractedFirst = {}
    /\ diskBefore = disk
    /\ returned = NotReturned

\* extract_all_ncsl_sessions up to output_data: the request, the rows and divs
ExtractAllCompute ==
    /\ variant = "extract_all"
    /\ xpc = "start"
    /\ \E fetched \in TableAnswers :
          LET out == extract_all_ncsl_sessions(fetched)
          IN  /\ returned' = out
              /\ fetchFailed' = ~fetched.ok
              /\ xpc' = IF out.kind = "dataset" THEN "computed" ELSE "done"
    /\ diskBefore' = disk
    /\ runs' = runs + 1
    /\ UNCHANGED <<disk, variant, seen_sessions, all_sessions, page,
                   pages_without_new_content, extractedFirst>>
    /\ UNCHANGED appVars
    /\ UNCHANGED classifyVars

\* with open(name, 'w') as f: ncsl_sessions_full.json first, then ncsl_sessions.json
OpenForWrite ==
    /\ variant = "extract_all"
    /\ xpc \in {"computed", "full_closed"}
    /\ disk' = [disk EXCEPT ![IF xpc = "computed" THEN FullFile ELSE MainFile] =
                                FileBeingWritten]
    /\ xpc' = IF xpc = "computed" THEN "full_open" ELSE "main_open"
    /\ UNCHANGED extractVarsButPc
    /\ UNCHANGED appVars
    /\ UNCHANGED classifyVars

\* json.dump(output_data, f) and the end of the `with` block
DumpAndClose ==
    /\ variant = "extract_all"
    /\ xpc \in {"full_open", "main_open"}
    /\ disk' = [disk EXCEPT ![IF xpc = "full_open" THEN FullFile ELSE MainFile] = returned]
    /\ xpc' = IF xpc = "full_open" THEN "full_closed" ELSE "done"
    /\ UNCHANGED extractVarsButPc
    /\ UNCHANGED appVars
    /\ UNCHANGED classifyVars

ConcurrentNext ==
    \/ ExtractAllCompute
    \/ OpenForWrite
    \/ DumpAndClose
    \/ ModuleImport
    \/ CheckDataFile
    \/ AppRun
    \/ ApiSessions
    \/ ApiSpeakerSessions
    \/ ApiStats

ConcurrentSpec == ConcurrentInit /\ [][ConcurrentNext]_vars

(***************************************************************************)
\* two characters that are the same letter
SameLetter(c, d) == c = d \/ {c, d} \in {{"a", "A"}, {"b", "B"}}

\* x is a case-insensitive substring of y
CaseInsensitiveSubstring(x, y) ==
    \E k \in 0..(Len(y) - Len(x)) : \A i \in 1..Len(x) : SameLetter(x[i], y[k + i])

\* the text of a speaker entry: the string, or the name of a structured speaker
SpeakerText(e) == IF e.tag = "str" THEN e.str ELSE e.name

\* the query filter of the specification; a missing field is empty
SatisfiesQuery(s, query) ==
    \/ "title" \in s.keys /\ CaseInsensitiveSubstring(query, s.title)
    \/ "description" \in s.keys /\ CaseInsensitiveSubstring(query, s.description)
    \/ /\ "speakers" \in s.keys
       /\ \E i \in 1..Len(s.speakers) :
             CaseInsensitiveSubstring(query, SpeakerText(s.speakers[i]))

\* the track filter of the specification
SatisfiesTrack(s, track) ==
    \/ "track" \in s.keys /\ s.track = track
    \/ "tracks" \in s.keys /\ \E i \in 1..Len(s.tracks) : s.tracks[i] = track

\* the speaker filter of the specification: an entry that is exactly the name
SatisfiesSpeaker(s, name) ==
    /\ "speakers" \in s.keys
    /\ \E i \in 1..Len(s.speakers) :
          s.speakers[i].tag = "str" /\ s.speakers[i].str = name

\* every non-empty filter at once
SatisfiesAll(s, query, track, speaker) ==
    /\ query # <<>> => SatisfiesQuery(s, query)
    /\ track # <<>> => SatisfiesTrack(s, track)
    /\ speaker # <<>> => SatisfiesSpeaker(s, speaker)

\* the order-preserving sub-sequence of ss that Keep(_) selects is `list`
IsSelection(list, ss, Keep(_)) == list = SelectSeq(ss, Keep)

\* every speakers entry of every session is a string
StringSpeakersOnly(ss) ==
    \A i \in 1..Len(ss) : \A j \in 1..Len(ss[i].speakers) : ss[i].speakers[j].tag = "str"

\* C1: for every loaded session list and every (query, track, speaker),
\* search_sessions returns the order-preserving sub-sequence of the sessions that
\* satisfy every non-empty filter at once; with all three empty, the full list.
C1_SearchIsConjunctionOfFilters ==
    response.op = "search" =>
        /\ ~response.raised
        /\ LET Keep(s) == SatisfiesAll(s, response.query, response.track, response.speaker)
           IN  IsSelection(response.list, sessions, Keep)
        /\ (response.query = <<>> /\ response.track = <<>> /\ response.speaker = <<>>)
              => response.list = sessions

\* C2: on a dataset whose speakers entries are strings, a search by a non-empty
\* query alone returns exactly the sessions, in order, with the query as a
\* case-insensitive substring of the title, the description or a speaker string.
C2_QueryIsCaseInsensitiveSubstring ==
    ( /\ response.op = "search"
      /\ response.query # <<>> /\ response.track = <<>> /\ response.speaker = <<>>
      /\ StringSpeakersOnly(sessions) ) =>
        /\ ~response.raised
        /\ LET Keep(s) == SatisfiesQuery(s, response.query)
           IN  IsSelection(response.list, sessions, Keep)

\* C2's case: the query "BA" finds the session whose speaker is "Ba", and not the
\* other session of the dataset
C2_Witness ==
    /\ response.op = "search"
    /\ response.query = <<"B", "A">> /\ response.track = <<>> /\ response.speaker = <<>>
    /\ StringSpeakersOnly(sessions)
    /\ Len(sessions) = 2
    /\ response.list = <<SessAI>>

\* C3: a search by a non-empty track alone returns exactly the sessions whose
\* `track` equals it or whose `tracks` contains it, case-sensitively, whether the
\* session carries one of the two fields or both.
C3_TrackMatchesEitherField ==
    ( /\ response.op = "search"
      /\ response.track # <<>> /\ response.query = <<>> /\ response.speaker = <<>> ) =>
        /\ ~response.raised
        /\ LET Keep(s) == SatisfiesTrack(s, response.track)
           IN  IsSelection(response.list, sessions, Keep)

\* C3's case: track "a" finds a session through `tracks` although its `track` is
\* another label, and a session through `track`
C3_Witness ==
    /\ response.op = "search"
    /\ response.track = <<"a">> /\ response.query = <<>> /\ response.speaker = <<>>
    /\ sessions = <<SessBoth, SessAI>>
    /\ response.list = <<SessBoth, SessAI>>

\* C4: get_speaker_sessions(name) returns, in dataset order, exactly the sessions
\* whose `speakers` hold an element equal to name, for the empty name too; a
\* session without `speakers` is never returned.
C4_SpeakerSessionsExactMatch ==
    response.op = "speaker" =>
        /\ ~response.raised
        /\ LET Keep(s) == SatisfiesSpeaker(s, response.speaker)
           IN  IsSelection(response.list, sessions, Keep)
        /\ \A i \in 1..Len(response.list) : "speakers" \in response.list[i].keys

\* C4's case: the empty name returns the one session that lists an empty speaker
C4_Witness ==
    /\ response.op = "speaker"
    /\ response.speaker = <<>>
    /\ Len(sessions) = 2
    /\ response.list = <<SessMixed>>

\* C8: when the dataset file is absent as SessionManager loads, the load signals
\* an error to its caller instead of completing with an empty dataset.
C8_AbsentFileSignalsError ==
    fileAtLoad = "absent" => loadOutcome = "raised"

\* C8 as the code has it: with the file absent, load_data prints the "Session
\* data not found" message and returns normally, leaving the manager empty; the
\* constructing code sees no failure and goes on.
C8_AbsentFilePrintsAndLoadsEmpty ==
    fileAtLoad = "absent" =>
        /\ loadOutcome = "returned"
        /\ notFoundPrinted
        /\ sessions = <<>> /\ speakers = <<>> /\ tracks = {}
        /\ pc # "crashed"

\* C8's case: the file was absent at load and the process serves
C8_Witness ==
    /\ fileAtLoad = "absent"
    /\ loadOutcome = "returned"
    /\ pc = "serving"
    /\ served > 0

\* C9: whenever the dataset fails to load (file absent, or present but no valid
\* dataset document), the process does not crash, and every search and speaker
\* request returns an empty list and every stats request zero counts.
C9_FailedLoadDegradesToEmpty ==
    fileAtLoad \in {"absent", "invalid"} =>
        /\ pc # "crashed"
        /\ response.op \in {"search", "speaker"} =>
              ~response.raised /\ response.list = <<>>
        /\ response.op = "stats" => response.stats = NoStats

\* C10: started as a program with the dataset file absent, the extractor
\* subprocess has been run and has ended before a request is served; with the
\* file present, the extractor is not run.
C10_BootstrapBeforeServing ==
    /\ (pc = "serving" \/ served > 0) =>
          /\ existedAtCheck = "absent" => extractor = "finished"
          /\ existedAtCheck = "present" => extractor = "not_invoked"
          /\ existedAtCheck # "unchecked"
    /\ extractor = "finished" => fileAtLoad = "absent"

\* C10's case: a request served after the bootstrap extractor ended
C10_Witness ==
    /\ served > 0
    /\ existedAtCheck = "absent"
    /\ extractor = "finished"

(***************************************************************************)
(* What the specification says of the extractors.                          *)
(***************************************************************************)
\* a run of scrape_all_sessions has returned
ScrapeReturned == variant = "final" /\ xpc \in {"scraped", "saved"}

NoTwoWithOneKey(ss) ==
    \A i, j \in 1..Len(ss) : i # j => SessionKey(ss[i]) # SessionKey(ss[j])

\* the number of sessions of ss that have the four fields of s
KeptOfKey(ss, s) == Cardinality({i \in 1..Len(ss) : SessionKey(ss[i]) = SessionKey(s)})

\* C5: the list a run of scrape_all_sessions returns holds no two sessions with
\* one (title, date, time, location), and of the records extracted in the run
\* that agree on the four fields exactly one is kept, the first extracted
C5_OneSessionPerKeyTheFirst ==
    ScrapeReturned =>
        /\ NoTwoWithOneKey(all_sessions)
        /\ \A e \in extractedFirst :
              e.again => /\ KeptOfKey(all_sessions, e.first) = 1
                         /\ \E i \in 1..Len(all_sessions) : all_sessions[i] = e.first

\* C6: every session of a dataset an extractor returns has a title that is not
\* empty and is none of the header texts "Time" and "Time/Room"
C6_RetainedTitlesAreNoPlaceholders ==
    returned.kind = "dataset" =>
        \A i \in 1..Len(returned.sessions) :
            /\ "title" \in returned.sessions[i].keys
            /\ returned.sessions[i].title \notin {<<>>, TextTime, TextTimeRoom}

\* C7: a run in which a page request failed returns no dataset and leaves every
\* file as it was before the run
C7_FetchFailureAbortsRun ==
    (fetchFailed /\ returned # NotReturned) =>
        /\ returned = ReturnedNone
        /\ disk = diskBefore

(***************************************************************************)
(* The statistics of the query service                                     *)
(***************************************************************************)
\* the type labels a session carries, under either key name
TypeLabels(s) ==
    (IF "type" \in s.keys THEN {s.type} ELSE {})
        \cup (IF "session_type" \in s.keys THEN {s.session_type} ELSE {})

\* C11: the session_types of a get_stats answer hold every type label a loaded
\* session carries under `type` or `session_type`, and nothing but such labels
\* and the default label "Session"
C11_SessionTypesFromEitherKey ==
    response.op = "stats" =>
        /\ \A i \in 1..Len(sessions) : TypeLabels(sessions[i]) \subseteq response.stats.session_types
        /\ response.stats.session_types
              \subseteq UNION {TypeLabels(sessions[i]) : i \in 1..Len(sessions)} \cup {"Session"}

\* the track labels of a session: its `track` value and the members of its `tracks`
TrackLabels(s) ==
    (IF "track" \in s.keys THEN {s.track} ELSE {})
        \cup (IF "tracks" \in s.keys THEN {s.tracks[i] : i \in 1..Len(s.tracks)} ELSE {})

\* C12: the tracks of a get_stats answer are the union, over the loaded sessions,
\* of the `track` value and the members of `tracks`, and total_tracks is its size
C12_TracksAreUnionOfBothForms ==
    response.op = "stats" =>
        /\ response.stats.tracks = UNION {TrackLabels(sessions[i]) : i \in 1..Len(sessions)}
        /\ response.stats.total_tracks = Cardinality(response.stats.tracks)

\* C13: for a loaded dataset without sessions, get_stats answers zero sessions,
\* zero speakers, zero tracks, no track and no session type
C13_EmptyDatasetHasZeroStats ==
    (response.op = "stats" /\ fileAtLoad = "dataset" /\ sessions = <<>>) =>
        response.stats = NoStats

(***************************************************************************)
(* Session-type classification                                             *)
(***************************************************************************)
\* two characters that are one letter in either case
SameLetterAZ(c, d) ==
    c = d \/ \E i \in 1..Len(UpperLetters) : {c, d} = {UpperLetters[i], LowerLetters[i]}

\* the word occurs in the title, in any letter case
ContainsAnyCase(word, title) ==
    \E k \in 0..(Len(title) - Len(word)) :
        \A i \in 1..Len(word) : SameLetterAZ(word[i], title[k + i])

WordBreakfast == <<"b", "r", "e", "a", "k", "f", "a", "s", "t">>

\* the keywords of the rules of a classifier
RuleKeywords(c) ==
    LET chain == IF c = "final" THEN type_map
                 ELSE IF c = "fetch" THEN fetch_type_chain ELSE extract_type_chain
    IN  UNION {{chain[k][1][n] : n \in 1..Len(chain[k][1])} : k \in 1..Len(chain)}

\* the keywords whose rule stands before the breakfast rule
EarlierKeywords(c) ==
    IF c = "final" THEN {<<"g", "e", "n", "e", "r", "a", "l", " ", "s", "e", "s", "s", "i", "o", "n">>, <<"o", "p", "e", "n", "i", "n", "g", " ", "s", "e", "s", "s", "i", "o", "n">>, <<"c", "l", "o", "s", "i", "n", "g", " ", "s", "e", "s", "s", "i", "o", "n">>} ELSE {<<"g", "e", "n", "e", "r", "a", "l", " ", "s", "e", "s", "s", "i", "o", "n">>}

NoKeywordSaysSession ==
    (\A w \in RuleKeywords(classifier) : ~ContainsAnyCase(w, titleIn)) => labelOut = "Session"

\* C14: a title that contains "breakfast" in any letter case is labelled
\* "Breakfast Session", a title that contains no rule keyword is labelled "Session"
C14_BreakfastAlwaysBreakfastSession ==
    classifier # "none" =>
        /\ ContainsAnyCase(WordBreakfast, titleIn) => labelOut = "Breakfast Session"
        /\ NoKeywordSaysSession

\* C14 as the code has it: the rules are tried in order, so "breakfast" decides
\* only for a title that contains none of the keywords of the rules before it
C14_BreakfastUnlessEarlierRule ==
    classifier # "none" =>
        /\ (/\ ContainsAnyCase(WordBreakfast, titleIn)
            /\ \A w \in EarlierKeywords(classifier) : ~ContainsAnyCase(w, titleIn))
              => labelOut = "Breakfast Session"
        /\ NoKeywordSaysSession

\* C14's case: the title "BREAKFAST Q" classified by FinalNCSLScraper
C14_Witness ==
    /\ classifier = "final"
    /\ titleIn = <<"B", "R", "E", "A", "K", "F", "A", "S", "T", " ", "Q">>
    /\ labelOut = "Breakfast Session"

(***************************************************************************)
(* The page loop of scrape_all_sessions                                    *)
(***************************************************************************)
\* the loop has reached one of its two ends
LoopAtEnd == pages_without_new_content >= 3 \/ page > max_pages

\* what a step taken inside scrape_all_sessions may do
LoopStep ==
    xpc = "scraping" =>
        \* the pages are fetched in order, and none after an end is reached
        /\ page' # page => page' = page + 1 /\ ~LoopAtEnd
        \* a page with a new session resets the count, another page adds one to it
        /\ page' # page =>
              pages_without_new_content' =
                  IF all_sessions' # all_sessions THEN 0 ELSE pages_without_new_content + 1
        \* the loop is left at an end only, the cap being 10 fetched pages
        /\ xpc' # xpc => LoopAtEnd /\ page - 1 <= max_pages /\ pages_without_new_content <= 3
        \* and nothing else happens at an end
        /\ LoopAtEnd => xpc' = "scraped" /\ page' = page

\* C15: the page loop fetches the pages in order from page 1, stops as soon as
\* 3 pages in a row gave no new session or 10 pages were fetched, resets the
\* count of such pages at a page with a new session, and always terminates
C15_PageLoopStopsInOrder ==
    /\ [][LoopStep]_vars
    /\ [][xpc' = "scraping" /\ xpc # "scraping" => page' = 1 /\ pages_without_new_content' = 0]_vars
    /\ (xpc = "scraping") ~> (xpc = "scraped")

\* C15's case: a run that ended at the cap of 10 pages, the last pages having
\* given new sessions
C15_Witness ==
    /\ xpc = "scraped"
    /\ page = max_pages + 1
    /\ pages_without_new_content < 3

(***************************************************************************)
(* The in-memory dataset                                                   *)
(***************************************************************************)
\* C16: once the data are loaded, no request changes the sessions, the speakers
\* or the tracks of the SessionManager
C16_RequestsLeaveDatasetUnchanged ==
    [][loadOutcome # "none" =>
          /\ sessions' = sessions
          /\ speakers' = speakers
          /\ tracks' = tracks]_vars

\* C16's case: a search was answered with fewer sessions than are loaded
C16_Witness ==
    /\ response.op = "search"
    /\ ~response.raised
    /\ Len(response.list) < Len(sessions)

(***************************************************************************)
(* Reading the dataset file while it is written                            *)
(***************************************************************************)
\* C17: what load_data finds in the dataset file while an extractor writes it is
\* a complete dataset, the one before the run or the one the run returns
C17_ReaderSeesCompleteDataset ==
    fileAtLoad # "none" =>
        /\ fileAtLoad = "dataset"
        /\ loadOutcome = "returned"
        /\ \/ sessions = PriorDataset.sessions /\ speakers = PriorDataset.speakers
           \/ sessions = returned.sessions /\ speakers = returned.speakers

(***************************************************************************)
(* Items that raise                                                        *)
(***************************************************************************)
\* the session, or one with its title and time, is in the list
StandsIn(s, ss) ==
    \E i \in 1..Len(ss) : ss[i].title = s.title /\ ss[i].time = s.time

HasStructuredSpeaker(ss) ==
    \E i \in 1..Len(ss) : \E k \in 1..Len(ss[i].speakers) : ss[i].speakers[k].tag = "dict"

\* C19: on a loaded dataset with structured speakers a search by a non-empty
\* query does not raise and returns a list of sessions
C19_SearchToleratesStructuredSpeakers ==
    (response.op = "search" /\ response.query # <<>> /\ HasStructuredSpeaker(sessions)) =>
        /\ ~response.raised
        /\ \A i \in 1..Len(response.list) :
              \E j \in 1..Len(sessions) : sessions[j] = response.list[i]

(***************************************************************************)
(* Fingerprints                                                            *)
(***************************************************************************)
\* C20: two sessions extracted in a run that differ in title, date, time or
\* location have different fingerprint inputs, and both are in the list the
\* run returns
C20_DifferentKeysDifferentFingerprints ==
    variant = "final" =>
        \A e1, e2 \in extractedFirst :
            SessionKey(e1.first) # SessionKey(e2.first) =>
                /\ create_session_hash(e1.first) # create_session_hash(e2.first)
                /\ ScrapeReturned =>
                      /\ \E i \in 1..Len(all_sessions) : all_sessions[i] = e1.first
                      /\ \E i \in 1..Len(all_sessions) : all_sessions[i] = e2.first

(***************************************************************************)
(* Successive runs on one scraper                                          *)
(***************************************************************************)
\* C21: a run discards a session only if its fingerprint was seen earlier in the
\* same run: of every fingerprint extracted in a run, also in a second run on
\* the same scraper, a session is in the list the run returns
C21_DeduplicationScopedToOneRun ==
    ScrapeReturned =>
        \A e \in extractedFirst :
            \E i \in 1..Len(all_sessions) :
                create_session_hash(all_sessions[i]) = create_session_hash(e.first)

(***************************************************************************)
(* Start without a dataset file                                            *)
(***************************************************************************)
\* C22: after a start with ncsl_sessions.json absent and a bootstrap extraction
\* that wrote its dataset, every request is served from the sessions of the
\* dataset the extractor wrote
C22_ServesTheBootstrappedDataset ==
    (/\ existedAtCheck = "absent"
     /\ extractor = "finished"
     /\ disk[FinalFile].kind = "dataset"
     /\ served > 0)
        => sessions = disk[FinalFile].sessions
====
